---- MODULE Spec2Model ----
(***************************************************************************)
(* A model of the Reddit data scraper (src/main.py): the credential        *)
(* resolver init_reddit, the two memoized fetch functions                  *)
(* get_subreddit_posts and get_post_by_url, and the script main() that the *)
(* GUI framework re-executes from top to bottom on every user action.      *)
(*                                                                         *)
(* A Python value is modelled by a string, an integer, a sequence or a     *)
(* record; a value that may be None is a tagged record, PyNone or          *)
(* PyStr(s).  A call that may raise returns a record with a field          *)
(* "raised".  A table (pandas DataFrame) is a record of its column names,  *)
(* in order, and its rows, in order.                                       *)
(***************************************************************************)
EXTENDS Integers, Sequences, FiniteSets, TLC

(***************************************************************************)
(* Bounds of the model.                                                    *)
(***************************************************************************)
\* the slider values explored are 1..MaxLimit (the slider itself is 1..100)
MaxLimit == 2
\* a submission's flattened comment tree holds up to MaxComments comments
MaxComments == 1
\* the clock advances MaxTicks times, by TickStep seconds each time
MaxTicks == 2
\* the two memoization caches together hold up to MaxEntries entries
MaxEntries == 1

(***************************************************************************)
(* Program constants.                                                      *)
(***************************************************************************)
\* @st.cache_data(ttl=3600)
TTL == 3600
\* st.slider("Number of posts to scrape:", 1, 100, 10)
SliderMin == 1
SliderMax == 100

TickStep == TTL \div 2

\* the names read by init_reddit
CredentialNames == {"REDDIT_CLIENT_ID", "REDDIT_CLIENT_SECRET", "REDDIT_USER_AGENT"}

\* the options of the sidebar radio, the first being the default
ScrapeOptions == <<"Subreddit Posts", "Specific Post by URL">>

\* the options of the time filter selectbox
TimeFilterOptions == <<"day", "week", "month", "year", "all">>

\* the columns of the two tables, in the order the dictionaries are written
PostColumns == <<"Title", "Post Text", "ID", "Score", "Total Comments", "Post URL">>
CommentColumns == <<"Comment Text", "Score", "Author", "Created UTC">>

(***************************************************************************)
(* Input domains.                                                          *)
(***************************************************************************)
PyNone == [tag |-> "None"]
PyStr(s) == [tag |-> "str", s |-> s]

\* an environment variable is unset (os.environ.get gives None), empty or set
EnvValues == {"<unset>", "", "env-value"}
\* a secret is missing (st.secrets[...] raises), empty or set
SecretValues == {"<missing>", "", "secret-value"}

SubredditNames == {"selfhosted"}
PostLimits == SliderMin..(IF MaxLimit <= SliderMax THEN MaxLimit ELSE SliderMax)
\* the selectbox's default
TimeFilters == {TimeFilterOptions[1]}
PostUrls == {"https://www.reddit.com/r/selfhosted/comments/abc", ""}

Range(s) == {s[i] : i \in DOMAIN s}
Min(a, b) == IF a <= b THEN a ELSE b

VARIABLES
  environ,        \* os.environ, restricted to the three credential names
  secrets,        \* st.secrets, restricted to the three credential names
  now,            \* the clock, in seconds
  cache_sub,      \* the memoization cache of get_subreddit_posts
  cache_url,      \* the memoization cache of get_post_by_url
  log_sub,        \* the remote listing requests of the last TTL seconds, by arguments
  log_url,        \* the remote submission requests of the last TTL seconds, by arguments
  scrape_option,  \* the sidebar radio's selection
  clicked,        \* the button whose click started the last script run, if any
  reddit,         \* the result of init_reddit in the last script run
  events,         \* the elements rendered and the fetch functions invoked by the last script run, in order
  lastCall        \* the fetch function call of the last script run, if any

vars == <<environ, secrets, now, cache_sub, cache_url, log_sub, log_url,
          scrape_option, clicked, reddit, events, lastCall>>

(***************************************************************************)
(* init_reddit                                                             *)
(***************************************************************************)
\* os.environ.get(name): the value, or None when the variable is unset
EnvironGet(env, name) == IF env[name] = "<unset>" THEN PyNone ELSE PyStr(env[name])

\* st.secrets[name]: the value, or an exception when the secret is missing
SecretsGetItem(sec, name) ==
  IF sec[name] = "<missing>" THEN [raised |-> TRUE, value |-> PyNone]
  ELSE [raised |-> FALSE, value |-> PyStr(sec[name])]

\* Python truthiness of None and of a string
Truthy(v) == v.tag = "str" /\ v.s # ""

\* a resolver that asks the secret store first
LookupSecretsFirst(env, sec, name) ==
  IF ~SecretsGetItem(sec, name).raised /\ Truthy(SecretsGetItem(sec, name).value)
  THEN SecretsGetItem(sec, name)
  ELSE IF EnvironGet(env, name) = PyNone THEN [raised |-> TRUE, value |-> PyNone]
  ELSE [raised |-> FALSE, value |-> EnvironGet(env, name)]

\* os.environ.get(name) or st.secrets[name]
Lookup(env, sec, name) ==
  IF Truthy(EnvironGet(env, name)) THEN [raised |-> FALSE, value |-> EnvironGet(env, name)]
  ELSE SecretsGetItem(sec, name)

NoSession == [raised |-> FALSE, started |-> FALSE, client_id |-> PyNone, client_secret |-> PyNone, user_agent |-> PyNone]

init_reddit(env, sec) ==
  LET client_id == Lookup(env, sec, "REDDIT_CLIENT_ID")
      client_secret == Lookup(env, sec, "REDDIT_CLIENT_SECRET")
      user_agent == Lookup(env, sec, "REDDIT_USER_AGENT")
  IN IF client_id.raised \/ client_secret.raised \/ user_agent.raised
     THEN [NoSession EXCEPT !.raised = TRUE, !.started = TRUE]
     ELSE [raised |-> FALSE, started |-> TRUE, client_id |-> client_id.value,
           client_secret |-> client_secret.value, user_agent |-> user_agent.value]

(***************************************************************************)
(* Tables                                                                  *)
(***************************************************************************)
\* pd.DataFrame()
EmptyDataFrame == [columns |-> <<>>, rows |-> <<>>]

\* pd.DataFrame(d) for a dictionary d of equally long lists, keyed by column
DataFrameFromDict(columns, d) ==
  [columns |-> columns,
   rows |-> [i \in 1..Len(d[columns[1]]) |-> [c \in Range(columns) |-> d[c][i]]]]

\* pd.DataFrame(l) for a list l of dictionaries with the same keys: an empty
\* list gives a table without columns
DataFrameFromRecords(columns, l) ==
  IF l = <<>> THEN EmptyDataFrame ELSE [columns |-> columns, rows |-> l]

\* len(df)
RowCount(df) == Len(df.rows)

(***************************************************************************)
(* Rendered elements and invocation events                                 *)
(***************************************************************************)
Element(type, label) == [type |-> type, label |-> label, n |-> 0, data |-> EmptyDataFrame, file |-> <<>>]

\* st.error(f"...: {str(e)}")
ErrorElement(label) == Element("error", label)

(***************************************************************************)
(* The remote API, as a stub session                                       *)
(***************************************************************************)
\* the i-th post of the ranking of a subreddit
RemotePost(subreddit_name, i) ==
  [title |-> "title", selftext |-> "", id |-> i, score |-> 100 - 10 * i,
   num_comments |-> 0, url |-> subreddit_name]

\* a listing stub yields `posts` posts and then either ends or raises
ListingStubs == [posts : 0..(MaxLimit + 1), raises : BOOLEAN]

\* a listing request that does not pass the limit on
SubredditTopUnlimited(stub, subreddit_name, post_limit, time_filter) ==
  [items |-> [i \in 1..stub.posts |-> RemotePost(subreddit_name, i)], raised |-> stub.raises]

\* subreddit.top(limit=post_limit, time_filter=time_filter): the generator
\* stops after post_limit items
SubredditTop(stub, subreddit_name, post_limit, time_filter) ==
  [items |-> [i \in 1..Min(post_limit, stub.posts) |-> RemotePost(subreddit_name, i)],
   raised |-> stub.raises /\ stub.posts < post_limit]

Redditor(name) == [tag |-> "Redditor", name |-> name]

Authors == {PyNone, Redditor("alice")}

RemoteComment(author, i) ==
  [body |-> "comment", score |-> i, author |-> author, created_utc |-> 1700000000 + i]

\* a submission stub raises when the submission is first read, or when its
\* comment tree is expanded, or never; `authors` are the authors of its
\* flattened comment tree
SubmissionStubs ==
  {[raises_at |-> "never", authors |-> a] :
      a \in UNION {[1..n -> Authors] : n \in 0..MaxComments}}
  \cup {[raises_at |-> p, authors |-> <<>>] : p \in {"submission", "replace_more"}}

NoStub == [raises_at |-> "unused", authors |-> <<>>]

RemoteSubmission(url) ==
  [title |-> "title", selftext |-> "text", id |-> "abc", score |-> 1, num_comments |-> 0, url |-> url]

(***************************************************************************)
(* get_subreddit_posts                                                     *)
(***************************************************************************)
EmptyPostsDict == [c \in Range(PostColumns) |-> <<>>]

PostField(post, c) ==
  CASE c = "Title" -> post.title
    [] c = "Post Text" -> post.selftext
    [] c = "ID" -> post.id
    [] c = "Score" -> post.score
    [] c = "Total Comments" -> post.num_comments
    [] c = "Post URL" -> post.url

\* the loop of lines 37-43
RECURSIVE AppendPosts(_, _)
AppendPosts(posts_dict, items) ==
  IF items = <<>> THEN posts_dict
  ELSE AppendPosts([c \in Range(PostColumns) |-> Append(posts_dict[c], PostField(Head(items), c))],
                   Tail(items))

\* an except clause that swallows the exception without a message
SubredditPostsHandlerSilent ==
  [raised |-> FALSE, failed |-> TRUE, value |-> <<EmptyDataFrame>>, messages |-> <<>>]

\* the except clause of get_subreddit_posts
SubredditPostsHandler ==
  [raised |-> FALSE, failed |-> TRUE, value |-> <<EmptyDataFrame>>,
   messages |-> <<ErrorElement("Error fetching subreddit posts")>>]

\* the body of get_subreddit_posts; value is a tuple of the tables returned
get_subreddit_posts(stub, subreddit_name, post_limit, time_filter) ==
  LET top == SubredditTop(stub, subreddit_name, post_limit, time_filter)
      posts_dict == AppendPosts(EmptyPostsDict, top.items)
  IN IF top.raised THEN SubredditPostsHandler
     ELSE [raised |-> FALSE, failed |-> FALSE,
           value |-> <<DataFrameFromDict(PostColumns, posts_dict)>>, messages |-> <<>>]

(***************************************************************************)
(* get_post_by_url                                                         *)
(***************************************************************************)
\* an author column that is filled without the conversion
StrOmitted(author) == author

\* str(comment.author): the name of a redditor, "None" for None
Str(author) == IF author.tag = "None" THEN PyStr("None") ELSE PyStr(author.name)

PostData(submission) ==
  [c \in Range(PostColumns) |-> PostField(submission, c)]

CommentData(comment) ==
  [c \in Range(CommentColumns) |->
     CASE c = "Comment Text" -> comment.body
       [] c = "Score" -> comment.score
       [] c = "Author" -> Str(comment.author)
       [] c = "Created UTC" -> comment.created_utc]

\* the loop of lines 67-74
RECURSIVE AppendComments(_, _)
AppendComments(post_comments, comments) ==
  IF comments = <<>> THEN post_comments
  ELSE AppendComments(Append(post_comments, CommentData(Head(comments))), Tail(comments))

\* the except clause of get_post_by_url
PostByUrlHandler ==
  [raised |-> FALSE, failed |-> TRUE, value |-> <<EmptyDataFrame, EmptyDataFrame>>,
   messages |-> <<ErrorElement("Error fetching post")>>]

\* pd.DataFrame(post_data) in place of pd.DataFrame([post_data]): pandas
\* refuses a dictionary of scalars, so every call ends in the except clause
get_post_by_url_scalars(stub, url) == PostByUrlHandler

\* the body of get_post_by_url; value is the pair of tables returned
get_post_by_url(stub, url) ==
  LET post_data == PostData(RemoteSubmission(url))
      comments == [i \in 1..Len(stub.authors) |-> RemoteComment(stub.authors[i], i)]
      post_comments == AppendComments(<<>>, comments)
  IN IF stub.raises_at # "never" THEN PostByUrlHandler
     ELSE [raised |-> FALSE, failed |-> FALSE,
           value |-> <<DataFrameFromRecords(PostColumns, <<post_data>>),
                       DataFrameFromRecords(CommentColumns, post_comments)>>,
           messages |-> <<>>]

(***************************************************************************)
(* st.cache_data(ttl=3600)                                                 *)
(***************************************************************************)
\* an entry is served while it is younger than the time to live
Fresh(cache, key, t) == key \in DOMAIN cache /\ t < cache[key].time + TTL

Restrict(f, S) == [k \in S |-> f[k]]

\* storing an entry drops the expired ones
CacheStore(cache, key, entry, t) ==
  LET live == {k \in DOMAIN cache : t < cache[k].time + TTL} \ {key}
  IN (key :> entry) @@ Restrict(cache, live)

\* a function without the decorator: the body runs on every call
CachedCallUndecorated(cache, key, result, t) ==
  [raised |-> result.raised, failed |-> result.failed, value |-> result.value,
   messages |-> result.messages, remote |-> TRUE, cache |-> cache]

\* a cache that does not keep the results of failed fetches
CachedCallSkipFailed(cache, key, result, t) ==
  IF Fresh(cache, key, t)
  THEN [raised |-> FALSE, failed |-> cache[key].failed, value |-> cache[key].value,
        messages |-> cache[key].messages, remote |-> FALSE, cache |-> cache]
  ELSE [raised |-> result.raised, failed |-> result.failed, value |-> result.value,
        messages |-> result.messages, remote |-> TRUE,
        cache |-> IF result.raised \/ result.failed THEN cache
                  ELSE CacheStore(cache, key,
                                  [value |-> result.value, messages |-> result.messages,
                                   failed |-> result.failed, time |-> t], t)]

\* a call of a function decorated with st.cache_data: `result` is what the
\* body returns when it runs.  A body that returns is memoized with the
\* messages it showed, which are shown again when the entry is served; a
\* body that raises is not memoized.
CachedCall(cache, key, result, t) ==
  IF Fresh(cache, key, t)
  THEN [raised |-> FALSE, failed |-> cache[key].failed, value |-> cache[key].value,
        messages |-> cache[key].messages, remote |-> FALSE, cache |-> cache]
  ELSE [raised |-> result.raised, failed |-> result.failed, value |-> result.value,
        messages |-> result.messages, remote |-> TRUE,
        cache |-> IF result.raised THEN cache
                  ELSE CacheStore(cache, key,
                                  [value |-> result.value, messages |-> result.messages,
                                   failed |-> result.failed, time |-> t], t)]

(***************************************************************************)
(* main                                                                    *)
(***************************************************************************)
\* `submission` is the stub a remote request for a submission was answered by
NoCall == [fn |-> "none", key |-> <<>>, remote |-> FALSE, failed |-> FALSE, value |-> <<>>, submission |-> NoStub]

CallEvent(fn) == Element("call", fn)

\* st.success(f"Successfully scraped {len(df)} posts!")
SuccessElement(df) == [Element("success", "Successfully scraped {len(df)} posts!") EXCEPT !.n = RowCount(df)]

\* st.dataframe(df)
DataframeElement(df) == [Element("dataframe", "") EXCEPT !.n = RowCount(df), !.data = df]

\* st.download_button(label, df.to_csv(index=False).encode('utf-8'), file, "text/csv")
DownloadElement(label, df, file) ==
  [Element("download_button", label) EXCEPT !.n = RowCount(df), !.data = df, !.file = file]

\* what the script renders before the mode's branch
Preamble ==
  <<Element("title", "Reddit Data Scraper"), Element("header", "Settings"),
    Element("radio", "Choose scraping option:")>>

SubredditInputs ==
  <<Element("header", "Subreddit Posts Scraper"), Element("text_input", "Enter subreddit name:"),
    Element("slider", "Number of posts to scrape:"), Element("selectbox", "Time filter:"),
    Element("button", "Scrape Subreddit")>>

UrlInputs ==
  <<Element("header", "Post URL Scraper"), Element("text_input", "Enter Reddit post URL:"),
    Element("button", "Scrape Post")>>

\* a branch that reports success only for a table with rows
SubredditShownIfRows(call, subreddit_name) ==
  IF call.raised
  THEN <<ErrorElement("An error occurred")>>
  ELSE IF RowCount(call.value[1]) = 0 THEN <<>>
  ELSE <<SuccessElement(call.value[1]), DataframeElement(call.value[1]),
         DownloadElement("Download CSV", call.value[1], <<subreddit_name, "_posts.csv">>)>>

\* lines 109-122, after the call has returned
SubredditShown(call, subreddit_name) ==
  IF call.raised
  THEN <<ErrorElement("An error occurred")>>
  ELSE <<SuccessElement(call.value[1]), DataframeElement(call.value[1]),
         DownloadElement("Download CSV", call.value[1], <<subreddit_name, "_posts.csv">>)>>

\* lines 106-124: the body of `if st.button("Scrape Subreddit")`
ScrapeSubreddit(subreddit_name, post_limit, time_filter, listing, cache, t) ==
  LET key == <<subreddit_name, post_limit, time_filter>>
      call == CachedCall(cache, key,
                         get_subreddit_posts(listing, subreddit_name, post_limit, time_filter), t)
  IN [events |-> <<Element("spinner", "Scraping posts..."), CallEvent("get_subreddit_posts")>>
                 \o call.messages \o SubredditShown(call, subreddit_name),
      cache |-> call.cache,
      lastCall |-> [fn |-> "get_subreddit_posts", key |-> key, remote |-> call.remote,
                    failed |-> call.failed, value |-> call.value, submission |-> NoStub]]

\* lines 136-162, after the call has returned
PostShown(call) ==
  IF call.raised
  THEN <<ErrorElement("An error occurred")>>
  ELSE <<Element("subheader", "Post Details"), DataframeElement(call.value[1]),
         [Element("subheader", "Comments ({len(comments_df)} total)") EXCEPT !.n = RowCount(call.value[2])],
         DataframeElement(call.value[2]),
         DownloadElement("Download Post CSV", call.value[1], <<"post_details.csv">>),
         DownloadElement("Download Comments CSV", call.value[2], <<"comments.csv">>)>>

\* lines 132-164: the body of `if st.button("Scrape Post")`
ScrapePost(post_url, submission, cache, t) ==
  LET key == <<post_url>>
      call == CachedCall(cache, key, get_post_by_url(submission, post_url), t)
  IN [events |-> <<Element("spinner", "Scraping post and comments..."), CallEvent("get_post_by_url")>>
                 \o call.messages \o PostShown(call),
      cache |-> call.cache,
      lastCall |-> [fn |-> "get_post_by_url", key |-> key, remote |-> call.remote,
                    failed |-> call.failed, value |-> call.value,
                    submission |-> IF call.remote THEN submission ELSE NoStub]]

\* a comparison that takes the other branch
IsSubredditOptionInverted(option) == option # "Subreddit Posts"

\* if scrape_option == "Subreddit Posts"
IsSubredditOption(option) == option = "Subreddit Posts"

\* st.button(label): true in the run that the click of this button started
Button(click, label) == click = label

\* one execution of the script: `option` is the radio's selection, `click`
\* the label of the button that was clicked ("" when the run was started by
\* something else), inp the values of the input widgets, and `listing` and
\* `submission` the remote's answers should the run ask
main(env, sec, option, click, inp, listing, submission, cs, cu, t) ==
  LET session == init_reddit(env, sec)
      quiet == [reddit |-> session, cache_sub |-> cs, cache_url |-> cu, lastCall |-> NoCall]
  IN IF session.raised
     THEN quiet @@ [events |-> <<Element("title", "Reddit Data Scraper"), Element("exception", "")>>]
     ELSE IF IsSubredditOption(option)
     THEN IF Button(click, "Scrape Subreddit")
          THEN LET r == ScrapeSubreddit(inp.subreddit_name, inp.post_limit, inp.time_filter, listing, cs, t)
               IN [reddit |-> session, events |-> Preamble \o SubredditInputs \o r.events,
                   cache_sub |-> r.cache, cache_url |-> cu, lastCall |-> r.lastCall]
          ELSE quiet @@ [events |-> Preamble \o SubredditInputs]
     ELSE IF Button(click, "Scrape Post")
          THEN LET r == ScrapePost(inp.post_url, submission, cu, t)
               IN [reddit |-> session, events |-> Preamble \o UrlInputs \o r.events,
                   cache_sub |-> cs, cache_url |-> r.cache, lastCall |-> r.lastCall]
          ELSE quiet @@ [events |-> Preamble \o UrlInputs]

(***************************************************************************)
(* The state machine                                                       *)
(***************************************************************************)
\* the input widgets' defaults
DefaultInputs == [subreddit_name |-> "selfhosted", post_limit |-> SliderMin, time_filter |-> "day", post_url |-> ""]

AnyListing == [posts |-> 0, raises |-> FALSE]
AnySubmission == [raises_at |-> "never", authors |-> <<>>]

Rendered(type, label) == \E i \in DOMAIN events : events[i].type = type /\ events[i].label = label

\* the requests of the last TTL seconds
Recent(log, t) == Restrict(log, {k \in DOMAIN log : t < log[k].time + TTL})

Logged(log, call, t) ==
  IF call.remote
  THEN (call.key :> [time |-> t, value |-> call.value, failed |-> call.failed]) @@ Restrict(log, DOMAIN log \ {call.key})
  ELSE log

\* a script run; the two caches are process-wide and survive it
Run(option, click, inp, listing, submission) ==
  \E r \in {main(environ, secrets, option, click, inp, listing, submission, cache_sub, cache_url, now)} :
     /\ scrape_option' = option
     /\ clicked' = click
     /\ reddit' = r.reddit
     /\ events' = r.events
     /\ cache_sub' = r.cache_sub
     /\ cache_url' = r.cache_url
     /\ lastCall' = r.lastCall
     /\ log_sub' = IF r.lastCall.fn = "get_subreddit_posts" THEN Logged(log_sub, r.lastCall, now) ELSE log_sub
     /\ log_url' = IF r.lastCall.fn = "get_post_by_url" THEN Logged(log_url, r.lastCall, now) ELSE log_url
     /\ UNCHANGED <<environ, secrets, now>>

\* the browser opens or reloads the page: a new session with the widgets'
\* defaults
Load == Run(ScrapeOptions[1], "", DefaultInputs, AnyListing, AnySubmission)

\* the explored runs keep the two caches within MaxEntries entries: a call
\* that is served from `cache` stores nothing, and any other call stores one
\* entry and drops the expired ones
HasRoom(cache, other, key) ==
  IF Fresh(cache, key, now) THEN TRUE
  ELSE Cardinality({k \in DOMAIN cache : now < cache[k].time + TTL} \ {key}) + 1
         + Cardinality(DOMAIN other) <= MaxEntries

\* the user picks an option of the sidebar radio
SelectOption(option) ==
  /\ Rendered("radio", "Choose scraping option:")
  /\ Run(option, "", DefaultInputs, AnyListing, AnySubmission)

\* the user clicks "Scrape Subreddit", the input widgets holding the three values
ClickScrapeSubreddit(subreddit_name, post_limit, time_filter, listing) ==
  /\ Rendered("button", "Scrape Subreddit")
  /\ HasRoom(cache_sub, cache_url, <<subreddit_name, post_limit, time_filter>>)
  /\ Run(scrape_option, "Scrape Subreddit",
         [DefaultInputs EXCEPT !.subreddit_name = subreddit_name, !.post_limit = post_limit,
                               !.time_filter = time_filter],
         listing, AnySubmission)

\* the user clicks "Scrape Post", the input widget holding post_url
ClickScrapePost(post_url, submission) ==
  /\ Rendered("button", "Scrape Post")
  /\ HasRoom(cache_url, cache_sub, <<post_url>>)
  /\ Run(scrape_option, "Scrape Post", [DefaultInputs EXCEPT !.post_url = post_url], AnyListing, submission)

\* time passes
Tick ==
  /\ now < MaxTicks * TickStep
  /\ now' = now + TickStep
  /\ log_sub' = Recent(log_sub, now')
  /\ log_url' = Recent(log_url, now')
  /\ UNCHANGED <<environ, secrets, cache_sub, cache_url, scrape_option, clicked, reddit, events, lastCall>>

\* the process has started and no page has been served yet
Idle ==
  /\ now = 0
  /\ cache_sub = <<>>
  /\ cache_url = <<>>
  /\ log_sub = <<>>
  /\ log_url = <<>>
  /\ scrape_option = ScrapeOptions[1]
  /\ clicked = ""
  /\ reddit = NoSession
  /\ events = <<>>
  /\ lastCall = NoCall

AllSet(value) == [name \in CredentialNames |-> value]

\* the deployments explored by the shell's specification: credentials in the
\* environment, and no credentials
Deployments ==
  {<<AllSet("env-value"), AllSet("<missing>")>>,
   <<AllSet("<unset>"), AllSet("<missing>")>>}

Init ==
  /\ \E d \in Deployments : environ = d[1] /\ secrets = d[2]
  /\ Idle

SelectAny == \E option \in Range(ScrapeOptions) : SelectOption(option)

\* the remote answers only when it is asked
ListingsAsked(key) == IF Fresh(cache_sub, key, now) THEN {AnyListing} ELSE ListingStubs

SubmissionsAsked(key) == IF Fresh(cache_url, key, now) THEN {AnySubmission} ELSE SubmissionStubs

ClickAnySubreddit ==
  \E subreddit_name \in SubredditNames, post_limit \in PostLimits, time_filter \in TimeFilters :
    \E listing \in ListingsAsked(<<subreddit_name, post_limit, time_filter>>) :
       ClickScrapeSubreddit(subreddit_name, post_limit, time_filter, listing)

ClickAnyPost ==
  \E post_url \in PostUrls :
    \E submission \in SubmissionsAsked(<<post_url>>) : ClickScrapePost(post_url, submission)

Next == Load \/ SelectAny \/ ClickAnySubreddit \/ ClickAnyPost \/ Tick

Spec == Init /\ [][Next]_vars

\* the credential resolver on every combination of environment and secret store
InitResolve ==
  /\ environ \in [CredentialNames -> EnvValues]
  /\ secrets \in [CredentialNames -> SecretValues]
  /\ Idle

NextResolve == Load

SpecResolve == InitResolve /\ [][NextResolve]_vars

(***************************************************************************)
(* Properties                                                              *)
(***************************************************************************)
Positions(type) == {i \in DOMAIN events : events[i].type = type}

CallPositions(fn) == {i \in Positions("call") : events[i].label = fn}

\* the last run called the fetch function fn
Called(fn) == lastCall.fn = fn

\* the step is a script run that called fn
Calls(fn) == now' = now /\ lastCall'.fn = fn

\* a remote request with the arguments `key` was logged less than TTL seconds ago
InWindow(log, key) == key \in DOMAIN log /\ now < log[key].time + TTL

\* the session's attribute that holds the credential `name`
Credential(session, name) ==
  CASE name = "REDDIT_CLIENT_ID" -> session.client_id
    [] name = "REDDIT_CLIENT_SECRET" -> session.client_secret
    [] name = "REDDIT_USER_AGENT" -> session.user_agent

\* C1: a call of get_subreddit_posts whose arguments were sent to the remote
\* less than TTL seconds ago issues no remote request and returns the table
\* that request produced.
C1_SecondCallServedFromCache ==
  [][Calls("get_subreddit_posts") /\ InWindow(log_sub, lastCall'.key)
       => /\ ~lastCall'.remote
          /\ lastCall'.value = log_sub[lastCall'.key].value
          /\ log_sub' = log_sub]_vars

\* a non-empty table served from the cache some time after it was fetched
C1_Witness ==
  /\ Called("get_subreddit_posts") /\ ~lastCall.remote
  /\ InWindow(log_sub, lastCall.key) /\ log_sub[lastCall.key].time < now
  /\ RowCount(lastCall.value[1]) > 0

\* C2: a fetch that failed returns tables without rows and with the columns of
\* the Post table and of the Comment table.
C2_EmptyTablesKeepColumns ==
  /\ Called("get_subreddit_posts") /\ lastCall.failed
       => lastCall.value[1] = [columns |-> PostColumns, rows |-> <<>>]
  /\ Called("get_post_by_url") /\ lastCall.failed
       => /\ lastCall.value[1] = [columns |-> PostColumns, rows |-> <<>>]
          /\ lastCall.value[2] = [columns |-> CommentColumns, rows |-> <<>>]

\* C3: after a fetch that failed, in either mode, the run has shown an error
\* message after the call, has not ended in an uncaught exception, and has
\* rendered the radio and the mode's button, so that a further action is
\* accepted.
C3_ShellSurvivesFailedFetch ==
  \A fn \in {"get_subreddit_posts", "get_post_by_url"} :
    Called(fn) /\ lastCall.remote /\ lastCall.failed
      => /\ \E i \in CallPositions(fn), j \in Positions("error") : i < j
         /\ Positions("exception") = {}
         /\ Rendered("radio", "Choose scraping option:")
         /\ Rendered("button", IF fn = "get_subreddit_posts" THEN "Scrape Subreddit" ELSE "Scrape Post")
         /\ ENABLED SelectAny

\* a failed remote request of a submission
C3_Witness ==
  /\ Called("get_post_by_url") /\ lastCall.remote /\ lastCall.failed
  /\ lastCall.submission.raises_at = "replace_more"

\* C4 as stated: init_reddit fails when a credential is absent from both
\* sources, and a value present in the environment is always the one used.
C4_EnvironmentValueAlwaysUsed ==
  reddit.started
    => /\ (\E name \in CredentialNames : environ[name] = "<unset>" /\ secrets[name] = "<missing>")
            => reddit.raised
       /\ \A name \in CredentialNames :
            environ[name] # "<unset>" /\ ~reddit.raised
              => Credential(reddit, name) = PyStr(environ[name])

\* C4, amended: init_reddit fails when a credential is absent from both
\* sources; a non-empty value of the environment is the one used; an empty
\* value of the environment counts as absent: the secret store's value is
\* used, and init_reddit fails when the secret store has none.
C4_NonEmptyEnvironmentValueUsed ==
  reddit.started
    => \A name \in CredentialNames :
         /\ environ[name] \in {"<unset>", ""} /\ secrets[name] = "<missing>" => reddit.raised
         /\ environ[name] \notin {"<unset>", ""} /\ ~reddit.raised
              => Credential(reddit, name) = PyStr(environ[name])
         /\ environ[name] \in {"<unset>", ""} /\ ~reddit.raised
              => Credential(reddit, name) = PyStr(secrets[name])

\* a session built from an environment value that shadows a secret and from a
\* secret that replaces an empty environment value
C4_Witness ==
  /\ reddit.started /\ ~reddit.raised
  /\ environ["REDDIT_CLIENT_ID"] = "env-value" /\ secrets["REDDIT_CLIENT_ID"] = "secret-value"
  /\ environ["REDDIT_CLIENT_SECRET"] = "" /\ reddit.client_secret = PyStr("secret-value")
  /\ reddit.client_id = PyStr("env-value")

\* C5: the table returned by get_subreddit_posts has at most post_limit rows.
C5_RowCountAtMostLimit ==
  Called("get_subreddit_posts") => RowCount(lastCall.value[1]) <= lastCall.key[2]

\* a fetched table with as many rows as the limit, the limit being the least
\* of the slider
C5_Witness ==
  /\ Called("get_subreddit_posts") /\ lastCall.remote /\ ~lastCall.failed
  /\ lastCall.key[2] = SliderMin /\ RowCount(lastCall.value[1]) = SliderMin

\* C6: a submission without comments that is fetched without an exception
\* gives a Post table of one row and a Comment table of no rows, and no error
\* message.
C6_NoCommentsIsNoError ==
  Called("get_post_by_url") /\ lastCall.remote
    /\ lastCall.submission.raises_at = "never" /\ lastCall.submission.authors = <<>>
    => /\ RowCount(lastCall.value[1]) = 1
       /\ RowCount(lastCall.value[2]) = 0
       /\ ~lastCall.failed
       /\ Positions("error") = {}

C6_Witness ==
  /\ Called("get_post_by_url") /\ lastCall.remote
  /\ lastCall.submission.raises_at = "never" /\ lastCall.submission.authors = <<>>
  /\ \E i \in Positions("dataframe") : events[i].n = 1

\* C7: the author column of every Comment table holds non-empty strings, and
\* the string "None" for a comment whose author is None.
C7_AuthorPlaceholder ==
  Called("get_post_by_url")
    => /\ \A i \in DOMAIN lastCall.value[2].rows :
            /\ lastCall.value[2].rows[i]["Author"].tag = "str"
            /\ lastCall.value[2].rows[i]["Author"].s # ""
       /\ lastCall.remote /\ ~lastCall.failed
            => \A i \in DOMAIN lastCall.submission.authors :
                 lastCall.submission.authors[i] = PyNone
                   => lastCall.value[2].rows[i]["Author"] = PyStr("None")

\* a fetched comment without an author
C7_Witness ==
  /\ Called("get_post_by_url") /\ lastCall.remote /\ ~lastCall.failed
  /\ \E i \in DOMAIN lastCall.submission.authors :
       /\ lastCall.submission.authors[i] = PyNone
       /\ lastCall.value[2].rows[i]["Author"] = PyStr("None")

\* C8: a run renders the button of one mode only; it calls a fetch function at
\* most once, only when the button of the selected mode was clicked, and the
\* function of that mode; and a table is displayed or offered for download
\* only after the call, and is a table the call returned.
C8_FetchOnlyOnTriggerOfSelectedMode ==
  /\ ~(Rendered("button", "Scrape Subreddit") /\ Rendered("button", "Scrape Post"))
  /\ Cardinality(Positions("call")) <= 1
  /\ (Positions("call") # {}) = (lastCall.fn # "none")
  /\ \A i \in Positions("call") : events[i].label = lastCall.fn
  /\ Called("get_subreddit_posts")
       => clicked = "Scrape Subreddit" /\ scrape_option = "Subreddit Posts"
  /\ Called("get_post_by_url")
       => clicked = "Scrape Post" /\ scrape_option = "Specific Post by URL"
  /\ \A j \in Positions("dataframe") \cup Positions("download_button") :
       /\ \E i \in Positions("call") : i < j
       /\ \E k \in DOMAIN lastCall.value : events[j].data = lastCall.value[k]

\* a post and its comments, displayed and offered for download
C8_Witness ==
  /\ Called("get_post_by_url") /\ scrape_option = "Specific Post by URL"
  /\ Cardinality(Positions("download_button")) = 2
  /\ \E j \in Positions("dataframe") : events[j].n > 0

\* C9: a call of either fetch function whose arguments were sent to the
\* remote less than TTL seconds ago, the request having failed, issues no
\* remote request and returns the empty result again; and a call issues a
\* remote request only when no request with its arguments was sent in the
\* last TTL seconds.
C9_FailedFetchIsMemoized ==
  [][/\ Calls("get_subreddit_posts")
          => /\ InWindow(log_sub, lastCall'.key) /\ log_sub[lastCall'.key].failed
                  => /\ ~lastCall'.remote /\ lastCall'.failed
                     /\ lastCall'.value = <<EmptyDataFrame>>
             /\ lastCall'.remote => ~InWindow(log_sub, lastCall'.key)
     /\ Calls("get_post_by_url")
          => /\ InWindow(log_url, lastCall'.key) /\ log_url[lastCall'.key].failed
                  => /\ ~lastCall'.remote /\ lastCall'.failed
                     /\ lastCall'.value = <<EmptyDataFrame, EmptyDataFrame>>
             /\ lastCall'.remote => ~InWindow(log_url, lastCall'.key)]_vars

\* a failed result served from the cache some time after the request failed
C9_Witness ==
  /\ Called("get_post_by_url") /\ ~lastCall.remote /\ lastCall.failed
  /\ InWindow(log_url, lastCall.key) /\ log_url[lastCall.key].time < now

\* C10: a run that calls get_subreddit_posts shows, after the call, the
\* success message with the table's row count, then the table, then the
\* download button; when the fetch failed, the error message comes first and
\* the count is 0.
C10_SuccessShownAfterEveryFetch ==
  Called("get_subreddit_posts")
    => /\ \E c \in CallPositions("get_subreddit_posts"), i \in Positions("success"),
             j \in Positions("dataframe"), k \in Positions("download_button") :
            /\ c < i /\ i < j /\ j < k
            /\ events[i].n = RowCount(lastCall.value[1])
            /\ events[j].data = lastCall.value[1]
            /\ events[k].data = lastCall.value[1]
       /\ lastCall.remote /\ lastCall.failed
            => \E e \in Positions("error"), i \in Positions("success") :
                 e < i /\ events[i].n = 0

\* a failed fetch of posts followed by the success message
C10_Witness ==
  /\ Called("get_subreddit_posts") /\ lastCall.remote /\ lastCall.failed
  /\ \E i \in Positions("success") : events[i].n = 0
====
